---- MODULE Spec2Model ----
(***************************************************************************)
(* Model of the file ingestion pipeline of Intelcobro:                     *)
(* FileUploadMiddleware (multer wrappers, security checks, magic-byte      *)
(* verification, hashing, content-addressed move, cleanup, disk guard,     *)
(* antivirus scan, temp sweep) and the routes that chain these             *)
(* middlewares.                                                            *)
(*                                                                         *)
(* Strings (file names, extensions, MIME types) and file contents are      *)
(* sequences of character / byte codes, so that toLowerCase, extname,      *)
(* split, startsWith, includes and Buffer comparisons are computed as the  *)
(* code computes them.                                                     *)
(***************************************************************************)
EXTENDS Integers, Sequences, FiniteSets, TLC

VARIABLES
    disk,          \* the filesystem under uploads/: path -> content
    req,           \* per request: route and the multipart parts the client sends
    pc,            \* per request: position in the middleware chain
    idx,           \* per request: number of parts received / files processed so far
    files,         \* per request: the multer file objects (req.file / req.files), in arrival order
    fileMetadata,  \* per request: req.fileMetadata
    nextCalls,     \* per request: what the upload middleware passed to next(), in order
    response,      \* per request: the response a middleware or the controller sent
    hashCount,     \* per request: number of generateFileHash calls made
    scanned,       \* per request: indexes of files performAntivirusScan reported safe
    probe,         \* per request: what checkDiskSpace learnt about the free space
    ioFault,       \* per request: a read stream, renameSync or unlinkSync has failed
    cleanupFault,  \* per request: an unlinkSync of cleanupTempFiles has thrown
    mtime,         \* modification time, in ms, of the files of uploads/temp
    sweep          \* the request that runs the cleanupOldFiles middleware

vars ==
    <<disk, req, pc, idx, files, fileMetadata, nextCalls, response, hashCount, scanned, probe, ioFault,
      cleanupFault, mtime, sweep>>

----------------------------------------------------------------------------
(* String literals of the source, as character codes. *)
ext_pdf == <<46, 112, 100, 102>>  \* '.pdf'
ext_doc == <<46, 100, 111, 99>>  \* '.doc'
ext_docx == <<46, 100, 111, 99, 120>>  \* '.docx'
ext_jpg == <<46, 106, 112, 103>>  \* '.jpg'
ext_jpeg == <<46, 106, 112, 101, 103>>  \* '.jpeg'
ext_png == <<46, 112, 110, 103>>  \* '.png'
ext_gif == <<46, 103, 105, 102>>  \* '.gif'
ext_webp == <<46, 119, 101, 98, 112>>  \* '.webp'
ext_mp3 == <<46, 109, 112, 51>>  \* '.mp3'
ext_wav == <<46, 119, 97, 118>>  \* '.wav'
ext_ogg == <<46, 111, 103, 103>>  \* '.ogg'
ext_webm == <<46, 119, 101, 98, 109>>  \* '.webm'
ext_m4a == <<46, 109, 52, 97>>  \* '.m4a'
ext_txt == <<46, 116, 120, 116>>  \* '.txt'
ext_rtf == <<46, 114, 116, 102>>  \* '.rtf'
ext_exe == <<46, 101, 120, 101>>  \* '.exe'
ext_bat == <<46, 98, 97, 116>>  \* '.bat'
ext_cmd == <<46, 99, 109, 100>>  \* '.cmd'
ext_scr == <<46, 115, 99, 114>>  \* '.scr'
ext_pif == <<46, 112, 105, 102>>  \* '.pif'
ext_com == <<46, 99, 111, 109>>  \* '.com'
mime_pdf == <<97, 112, 112, 108, 105, 99, 97, 116, 105, 111, 110, 47, 112, 100, 102>>  \* 'application/pdf'
mime_msword == <<97, 112, 112, 108, 105, 99, 97, 116, 105, 111, 110, 47, 109, 115, 119, 111, 114, 100>>  \* 'application/msword'
mime_docx == <<97, 112, 112, 108, 105, 99, 97, 116, 105, 111, 110, 47, 118, 110, 100, 46, 111, 112, 101, 110, 120, 109, 108, 102, 111, 114, 109, 97, 116, 115, 45, 111, 102, 102, 105, 99, 101, 100, 111, 99, 117, 109, 101, 110, 116, 46, 119, 111, 114, 100, 112, 114, 111, 99, 101, 115, 115, 105, 110, 103, 109, 108, 46, 100, 111, 99, 117, 109, 101, 110, 116>>  \* 'application/vnd.openxmlformats-officedocument.wordprocessingml.document'
mime_jpeg == <<105, 109, 97, 103, 101, 47, 106, 112, 101, 103>>  \* 'image/jpeg'
mime_png == <<105, 109, 97, 103, 101, 47, 112, 110, 103>>  \* 'image/png'
mime_gif == <<105, 109, 97, 103, 101, 47, 103, 105, 102>>  \* 'image/gif'
mime_webp == <<105, 109, 97, 103, 101, 47, 119, 101, 98, 112>>  \* 'image/webp'
mime_mpeg == <<97, 117, 100, 105, 111, 47, 109, 112, 101, 103>>  \* 'audio/mpeg'
mime_wav == <<97, 117, 100, 105, 111, 47, 119, 97, 118>>  \* 'audio/wav'
mime_ogg == <<97, 117, 100, 105, 111, 47, 111, 103, 103>>  \* 'audio/ogg'
mime_webm == <<97, 117, 100, 105, 111, 47, 119, 101, 98, 109>>  \* 'audio/webm'
mime_mp4 == <<97, 117, 100, 105, 111, 47, 109, 112, 52>>  \* 'audio/mp4'
mime_text == <<116, 101, 120, 116, 47, 112, 108, 97, 105, 110>>  \* 'text/plain'
mime_rtf == <<97, 112, 112, 108, 105, 99, 97, 116, 105, 111, 110, 47, 114, 116, 102>>  \* 'application/rtf'
pre_image == <<105, 109, 97, 103, 101, 47>>  \* 'image/'
pre_audio == <<97, 117, 100, 105, 111, 47>>  \* 'audio/'
str_word == <<119, 111, 114, 100>>  \* 'word'
EICAR == <<88, 53, 79, 33, 80, 37, 64, 65, 80, 91, 52, 92, 80, 90, 88, 53, 52, 40, 80, 94, 41, 55, 67, 67, 41, 55, 125, 36, 69, 73, 67, 65, 82>>  \* 'X5O!P%@AP[4\\PZX54(P^)7CC)7}$EICAR'
MZ == <<77, 90>>  \* 'MZ'
mime_PDF_upper == <<65, 112, 112, 108, 105, 99, 97, 116, 105, 111, 110, 47, 80, 68, 70>>  \* 'Application/PDF'
mime_html == <<116, 101, 120, 116, 47, 104, 116, 109, 108>>  \* 'text/html'
name_cv_pdf == <<99, 118, 46, 112, 100, 102>>  \* 'cv.pdf'
name_cv_PDF == <<99, 118, 46, 80, 68, 70>>  \* 'cv.PDF'
name_cv_doc == <<99, 118, 46, 100, 111, 99>>  \* 'cv.doc'
name_cv_pdf_exe == <<99, 118, 46, 112, 100, 102, 46, 101, 120, 101>>  \* 'cv.pdf.exe'
name_cv_exe_pdf == <<99, 118, 46, 101, 120, 101, 46, 112, 100, 102>>  \* 'cv.exe.pdf'
name_sep == <<97, 47, 98, 46, 112, 100, 102>>  \* 'a/b.pdf'
name_ctrl == <<99, 9, 118, 46, 112, 100, 102>>  \* 'c\tv.pdf'
name_v_mp3 == <<118, 46, 109, 112, 51>>  \* 'v.mp3'
name_v_ogg == <<118, 46, 111, 103, 103>>  \* 'v.ogg'
name_i_png == <<105, 46, 112, 110, 103>>  \* 'i.png'
name_t_txt == <<116, 46, 116, 120, 116>>  \* 't.txt'

----------------------------------------------------------------------------
(* Bounds of the model. *)
NumReqs == 2       \* requests in flight over the life of the model
MaxParts == 2      \* file parts in one multipart request

Reqs == 1..NumReqs

----------------------------------------------------------------------------
(* JavaScript string and path helpers. *)

\* String.prototype.toLowerCase on ASCII
toLowerCase(s) == [k \in 1..Len(s) |-> IF s[k] \in 65..90 THEN s[k] + 32 ELSE s[k]]

\* String.prototype.startsWith
startsWith(s, p) == Len(p) <= Len(s) /\ SubSeq(s, 1, Len(p)) = p

\* String.prototype.includes / Buffer.prototype.indexOf(pattern) !== -1
includes(s, p) == \E k \in 0..(Len(s) - Len(p)) : SubSeq(s, k + 1, k + Len(p)) = p

\* index of the last occurrence of character c in s after position from, 0 if none
lastIndexOf(s, c, from) ==
    LET K == {k \in (from + 1)..Len(s) : s[k] = c}
    IN  IF K = {} THEN 0 ELSE CHOOSE k \in K : \A j \in K : j <= k

\* path.extname (posix): from the last '.' of the basename to the end; '' when the
\* basename has no '.' or only a leading one
extname(s) ==
    LET slash == lastIndexOf(s, 47, 0)
        dot   == lastIndexOf(s, 46, slash)
    IN  IF dot = 0 \/ dot = slash + 1 THEN <<>> ELSE SubSeq(s, dot, Len(s))

\* String.prototype.split('.')
RECURSIVE split(_)
split(s) ==
    LET D == {k \in 1..Len(s) : s[k] = 46}
    IN  IF D = {} THEN <<s>>
        ELSE LET d == CHOOSE k \in D : \A j \in D : k <= j
             IN  <<SubSeq(s, 1, d - 1)>> \o split(SubSeq(s, d + 1, Len(s)))

\* Buffer.alloc(n) filled from the start of a file by fs.readSync: the file's
\* bytes, then zeros
Buffer(n, content) ==
    [k \in 1..n |-> IF k <= Len(content.head) /\ k <= content.size THEN content.head[k] ELSE 0]

----------------------------------------------------------------------------
(* FILE_CONFIGS *)

MiB == 1048576

FILE_CONFIGS ==
    [resume |->
        [extensions |-> {ext_pdf, ext_doc, ext_docx},
         mimeTypes  |-> {mime_pdf, mime_msword, mime_docx},
         maxSize    |-> 5 * MiB],
     image |->
        [extensions |-> {ext_jpg, ext_jpeg, ext_png, ext_gif, ext_webp},
         mimeTypes  |-> {mime_jpeg, mime_png, mime_gif, mime_webp},
         maxSize    |-> 2 * MiB],
     audio |->
        [extensions |-> {ext_mp3, ext_wav, ext_ogg, ext_webm, ext_m4a},
         mimeTypes  |-> {mime_mpeg, mime_wav, mime_ogg, mime_webm, mime_mp4},
         maxSize    |-> 10 * MiB],
     document |->
        [extensions |-> {ext_pdf, ext_doc, ext_docx, ext_txt, ext_rtf},
         mimeTypes  |-> {mime_pdf, mime_msword, mime_docx, mime_text, mime_rtf},
         maxSize    |-> 10 * MiB]]

\* Math.max(...Object.values(FILE_CONFIGS).map(c => c.maxSize))
MaxConfigSize ==
    CHOOSE m \in {FILE_CONFIGS[t].maxSize : t \in DOMAIN FILE_CONFIGS} :
        \A t \in DOMAIN FILE_CONFIGS : FILE_CONFIGS[t].maxSize <= m

----------------------------------------------------------------------------
(* Filename and type checks made while a part is being accepted. *)

\* the characters of /[<>:"/\\|?*\x00-\x1f]/
dangerousChars == {60, 62, 58, 34, 47, 92, 124, 63, 42} \cup (0..31)

suspiciousExtensions == {ext_exe, ext_bat, ext_cmd, ext_scr, ext_pif, ext_com}

MaxNameLength == 255

\* performSecurityChecks without the test for dangerous characters
performSecurityChecks_noCharTest(file) ==
    LET filename == file.originalname
    IN  IF Len(filename) > MaxNameLength
        THEN <<"Nombre de archivo demasiado largo">> ELSE <<>>

\* performSecurityChecks: the list of error messages (isValid iff it is empty).
\* A file object has no size property while multer runs the file filter.
performSecurityChecks(file) ==
    LET filename == file.originalname
        parts    == split(filename)
    IN  (IF \E k \in 1..Len(filename) : filename[k] \in dangerousChars
            THEN <<"Nombre de archivo contiene caracteres no permitidos">> ELSE <<>>)
        \o (IF Len(filename) > MaxNameLength
            THEN <<"Nombre de archivo demasiado largo">> ELSE <<>>)
        \o (IF Len(parts) > 2
               /\ \E k \in 1..Len(parts) : (<<46>> \o toLowerCase(parts[k])) \in suspiciousExtensions
            THEN <<"Archivo con extensión ejecutable no permitido">> ELSE <<>>)
        \o (IF "size" \in DOMAIN file /\ file.size = 0
            THEN <<"El archivo está vacío">> ELSE <<>>)

\* createFileFilter without the test of the MIME type
createFileFilter_noMimeCheck(allowedConfig, file) ==
    LET extension == toLowerCase(extname(file.originalname))
    IN  IF extension \notin allowedConfig.extensions THEN <<"Extensión no permitida">>
        ELSE performSecurityChecks(file)

\* createFileFilter(allowedConfig): the error messages passed to cb, <<>> for cb(null, true)
createFileFilter(allowedConfig, file) ==
    LET extension == toLowerCase(extname(file.originalname))
        mimetype  == toLowerCase(file.mimetype)
    IN  IF extension \notin allowedConfig.extensions THEN <<"Extensión no permitida">>
        ELSE IF mimetype \notin allowedConfig.mimeTypes THEN <<"Tipo de archivo no permitido">>
        ELSE performSecurityChecks(file)

----------------------------------------------------------------------------
(* The filesystem.  A path is [dir, stem, ext]: the directory under uploads/ and
   the file name, kept as the two pieces every name written here is built from
   (`${timestamp}_${random}${extension}`, `${hash}${extension}`).  A content is
   [head, size]: its leading bytes and its length in bytes; the bytes after
   head are zeros. *)

Path(dir, stem, ext) == [dir |-> dir, stem |-> stem, ext |-> ext]

exists(d, p) == p \in DOMAIN d

\* fs.unlinkSync of an existing path
unlink(d, p) == [q \in (DOMAIN d) \ {p} |-> d[q]]

\* fs.renameSync of an existing path
rename(d, from, to) ==
    [q \in ((DOMAIN d) \ {from}) \cup {to} |-> IF q = to THEN d[from] ELSE d[q]]

\* a file written by the multer disk storage
write(d, p, content) == [q \in (DOMAIN d) \cup {p} |-> IF q = p THEN content ELSE d[q]]

\* crypto.createHash('sha256') over the whole stream, hex digest: distinct
\* contents have distinct digests
sha256(content) == <<"sha256", content.head, content.size>>

----------------------------------------------------------------------------
(* Magic-byte verification, hashing, move to the final location. *)

magicBytes ==
    (mime_pdf  :> {<<37, 80, 68, 70>>})
    @@ (mime_jpeg :> {<<255, 216, 255, 224>>, <<255, 216, 255, 225>>})
    @@ (mime_png  :> {<<137, 80, 78, 71, 13, 10, 26, 10>>})
    @@ (mime_mpeg :> {<<255, 251>>, <<73, 68, 51>>})
    @@ (mime_wav  :> {<<82, 73, 70, 70>>})

MagicBufferSize == 32

\* validateFileContent without the comparison against the signatures
validateFileContent_noCompare(d, file) == exists(d, file.path)

\* validateFileContent that fails a MIME type without registered signatures
validateFileContent_rejectUnknown(d, file) ==
    /\ exists(d, file.path)
    /\ file.mimetype \in DOMAIN magicBytes
    /\ \E magic \in magicBytes[file.mimetype] :
          SubSeq(Buffer(MagicBufferSize, d[file.path]), 1, Len(magic)) = magic

\* validateFileContent: false when the file cannot be opened (the catch branch)
validateFileContent(d, file) ==
    IF ~exists(d, file.path) THEN FALSE
    ELSE LET buffer == Buffer(MagicBufferSize, d[file.path])
         IN  IF file.mimetype \notin DOMAIN magicBytes THEN TRUE
             ELSE \E magic \in magicBytes[file.mimetype] :
                     SubSeq(buffer, 1, Len(magic)) = magic

\* finalSubdir without the rule for application/pdf and Word types
finalSubdir_prefixOnly(mimetype) ==
    IF startsWith(mimetype, pre_image) THEN "images"
    ELSE IF startsWith(mimetype, pre_audio) THEN "audio"
    ELSE "documents"

\* the subdirectory moveFileToFinalLocation selects
finalSubdir(mimetype) ==
    IF startsWith(mimetype, pre_image) THEN "images"
    ELSE IF startsWith(mimetype, pre_audio) THEN "audio"
    ELSE IF mimetype = mime_pdf \/ includes(mimetype, str_word) THEN "resumes"
    ELSE "documents"

\* finalPathOf naming the final file after the multer file name, not the hash
finalPathOf_byName(file) ==
    Path(finalSubdir(file.mimetype), file.path.stem, extname(file.originalname))

\* the path moveFileToFinalLocation computes: uploads/<subdir>/<hash><extension>
finalPathOf(file) ==
    Path(finalSubdir(file.mimetype), file.hash, extname(file.originalname))

\* moveFileToFinalLocation without the unlink of a duplicate's temp file
moveFileToFinalLocation_keepDuplicate(d, file) ==
    IF ~exists(d, finalPathOf(file))
    THEN rename(d, file.path, finalPathOf(file))
    ELSE d

\* moveFileToFinalLocation when neither renameSync nor unlinkSync throws:
\* rename into place unless the destination exists, else drop the temp file
moveFileToFinalLocation(d, file) ==
    IF ~exists(d, finalPathOf(file))
    THEN rename(d, file.path, finalPathOf(file))
    ELSE unlink(d, file.path)

----------------------------------------------------------------------------
(* req.file / req.files *)

\* field names in order of first appearance (the keys of req.files)
RECURSIVE fieldOrder(_)
fieldOrder(fs) ==
    IF fs = <<>> THEN <<>>
    ELSE LET rest == fieldOrder(SubSeq(fs, 1, Len(fs) - 1))
             name == fs[Len(fs)].fieldname
         IN  IF \E k \in 1..Len(rest) : rest[k] = name THEN rest ELSE Append(rest, name)

\* positions of the files of fs in the order getAllFiles returns them: req.file,
\* or the arrays of req.files one field after the other
RECURSIVE groupByField(_, _)
groupByField(fs, names) ==
    IF names = <<>> THEN <<>>
    ELSE SelectSeq([k \in 1..Len(fs) |-> k], LAMBDA k : fs[k].fieldname = Head(names))
         \o groupByField(fs, Tail(names))

getAllFilesOrder(fs) == groupByField(fs, fieldOrder(fs))

getAllFiles(fs) == [k \in 1..Len(fs) |-> fs[getAllFilesOrder(fs)[k]]]

\* calculateTotalSize counting the first file only
calculateTotalSize_firstOnly(fs) == IF fs = <<>> THEN 0 ELSE fs[1].size

\* calculateTotalSize
RECURSIVE calculateTotalSize(_)
calculateTotalSize(fs) ==
    IF fs = <<>> THEN 0 ELSE fs[1].size + calculateTotalSize(Tail(fs))

\* extractFileMetadata
extractFileMetadata(fs) ==
    [k \in 1..Len(fs) |->
        LET file == getAllFiles(fs)[k]
        IN  [originalName |-> file.originalname,
             filename     |-> file.filename,
             path         |-> IF "finalPath" \in DOMAIN file THEN file.finalPath ELSE file.path,
             size         |-> file.size,
             mimetype     |-> file.mimetype,
             extension    |-> toLowerCase(extname(file.originalname)),
             hash         |-> IF "hash" \in DOMAIN file THEN file.hash ELSE <<>>]]

\* cleanupTempFiles that unlinks file.finalPath as well as file.path
RECURSIVE cleanupTempFiles_finalPathToo(_, _)
cleanupTempFiles_finalPathToo(d, fs) ==
    IF fs = <<>> THEN d
    ELSE LET d1 == IF exists(d, fs[1].path) THEN unlink(d, fs[1].path) ELSE d
             d2 == IF "finalPath" \in DOMAIN fs[1] /\ exists(d1, fs[1].finalPath)
                   THEN unlink(d1, fs[1].finalPath) ELSE d1
         IN  cleanupTempFiles_finalPathToo(d2, Tail(fs))

\* cleanupTempFiles stopping after the first file of the request
cleanupTempFiles_firstOnly(d, fs) ==
    IF fs = <<>> THEN d
    ELSE IF exists(d, fs[1].path) THEN unlink(d, fs[1].path) ELSE d

\* cleanupTempFiles: unlink file.path of every file of the request that exists
RECURSIVE cleanupTempFiles(_, _)
cleanupTempFiles(d, fs) ==
    IF fs = <<>> THEN d
    ELSE cleanupTempFiles(IF exists(d, fs[1].path) THEN unlink(d, fs[1].path) ELSE d, Tail(fs))

----------------------------------------------------------------------------
(* Antivirus scan *)

ScanBufferSize == 1024

maliciousPatterns == {EICAR, MZ}

\* performAntivirusScan: true when safe; false when a pattern occurs in the first
\* 1024 bytes or the file cannot be read (the catch branch)
performAntivirusScan(d, file) ==
    IF ~exists(d, file.path) THEN FALSE
    ELSE LET buffer == Buffer(ScanBufferSize, d[file.path])
         IN  ~(\E pattern \in maliciousPatterns : includes(buffer, pattern))

----------------------------------------------------------------------------
(* The upload middlewares: uploadResume, uploadAudio, uploadMultiple. *)

\* the fieldNames a caller passes to uploadMultiple
fieldNames ==
    <<[name |-> "documents", maxCount |-> 2, type |-> "document"],
      [name |-> "photo",     maxCount |-> 1, type |-> "image"],
      [name |-> "resume",    maxCount |-> 1, type |-> "resume"]>>

RECURSIVE sumMaxCount(_)
sumMaxCount(fields) ==
    IF fields = <<>> THEN 0 ELSE fields[1].maxCount + sumMaxCount(Tail(fields))

\* the multer instance each route builds: storage subdirectory, accepted fields
\* (with the FILE_CONFIGS entry its file filter applies) and limits
multerConfig(route) ==
    CASE route = "job" ->
            [subdir |-> "resumes", fileSize |-> FILE_CONFIGS.resume.maxSize, files |-> 1,
             fields |-> <<[name |-> "resume", maxCount |-> 1, type |-> "resume"]>>]
      [] route = "voice" ->
            [subdir |-> "audio", fileSize |-> FILE_CONFIGS.audio.maxSize, files |-> 1,
             fields |-> <<[name |-> "audio", maxCount |-> 1, type |-> "audio"]>>]
      [] route = "multi" ->
            [subdir |-> "temp", fileSize |-> MaxConfigSize, files |-> sumMaxCount(fieldNames),
             fields |-> fieldNames]

\* the outcome of multer for the next part of a request that has accepted the
\* files fs so far: "" when the part is stored, else the code of the MulterError
\* or the messages of the file filter's Error
multerReject(cfg, fs, part) ==
    LET field == {k \in 1..Len(cfg.fields) : cfg.fields[k].name = part.fieldname}
        taken == Cardinality({k \in 1..Len(fs) : fs[k].fieldname = part.fieldname})
        file  == [fieldname |-> part.fieldname, originalname |-> part.originalname,
                  mimetype |-> part.mimetype]
    IN  IF Len(fs) >= cfg.files THEN <<"LIMIT_FILE_COUNT">>
        ELSE IF field = {} \/ \A k \in field : cfg.fields[k].maxCount - taken <= 0
             THEN <<"LIMIT_UNEXPECTED_FILE">>
        ELSE LET config == FILE_CONFIGS[cfg.fields[CHOOSE k \in field : TRUE].type]
                 errors == createFileFilter(config, file)
             IN  IF errors # <<>> THEN errors
                 ELSE IF part.content.size > cfg.fileSize THEN <<"LIMIT_FILE_SIZE">>
                 ELSE <<>>

\* the file object multer's disk storage adds to the request: createStorage names
\* the file `${timestamp}_${random}${extension}`, unique per stored part
multerFile(cfg, r, k, part) ==
    LET ext == toLowerCase(extname(part.originalname))
    IN  [fieldname    |-> part.fieldname,
         originalname |-> part.originalname,
         mimetype     |-> part.mimetype,
         filename     |-> <<<<"tmp", r, k>>, ext>>,
         path         |-> Path(cfg.subdir, <<"tmp", r, k>>, ext),
         size         |-> part.content.size]

\* multer removes the files it has stored for a request before it calls back with
\* an error
RECURSIVE removeUploadedFiles(_, _)
removeUploadedFiles(d, fs) ==
    IF fs = <<>> THEN d
    ELSE removeUploadedFiles(IF exists(d, fs[1].path) THEN unlink(d, fs[1].path) ELSE d, Tail(fs))

\* handleMulterError, and the ValidationException wrapMulter builds for any other
\* upload error
handleMulterError(error) ==
    CASE error = <<"LIMIT_FILE_SIZE">> ->
            [name |-> "ValidationException", message |-> <<"Archivo demasiado grande">>]
      [] error = <<"LIMIT_FILE_COUNT">> ->
            [name |-> "ValidationException", message |-> <<"Demasiados archivos">>]
      [] error = <<"LIMIT_UNEXPECTED_FILE">> ->
            [name |-> "ValidationException", message |-> <<"Campo de archivo inesperado">>]
      [] OTHER ->
            [name |-> "ValidationException", message |-> <<"Error subiendo archivo">> \o error]

NoError == [name |-> "", message |-> <<>>]

InvalidContentError ==
    [name |-> "ValidationException", message |-> <<"Contenido de archivo inválido">>]

TotalSizeError ==
    [name |-> "ValidationException", message |-> <<"Tamaño total de archivos excede el límite">>]

IOError == [name |-> "Error", message |-> <<"EIO">>]

\* the middleware that follows the upload middleware on each route
afterUpload(route) == IF route = "multi" THEN "done" ELSE "body"

----------------------------------------------------------------------------
(* The uploads clients send: contents, and the parts offered on each route. *)

PDF_MAGIC == <<37, 80, 68, 70>>          \* "%PDF"
PNG_MAGIC == <<137, 80, 78, 71, 13, 10, 26, 10>>
ID3_MAGIC == <<73, 68, 51>>              \* "ID3"

c_pdf     == [head |-> PDF_MAGIC, size |-> 1258291]          \* a 1.2 MiB PDF
c_pdf_big == [head |-> PDF_MAGIC, size |-> 6 * MiB]          \* a 6 MiB PDF
c_pdf_mz  == [head |-> PDF_MAGIC \o MZ, size |-> 6]          \* "%PDFMZ"
c_empty   == [head |-> <<>>, size |-> 0]                     \* a zero-byte file
c_text    == [head |-> <<104, 105>>, size |-> 2]             \* "hi"
c_mp3     == [head |-> ID3_MAGIC, size |-> 3]
c_mp3_mz  == [head |-> ID3_MAGIC \o MZ, size |-> 5]
c_png     == [head |-> PNG_MAGIC, size |-> 8]

\* a file name of 256 characters ending in ".pdf"
name_long == [k \in 1..(MaxNameLength - 3) |-> 97] \o ext_pdf

Part(fieldname, originalname, mimetype, content) ==
    [fieldname |-> fieldname, originalname |-> originalname,
     mimetype |-> mimetype, content |-> content]

JobParts ==
    {Part("resume", name_cv_pdf,     mime_pdf,       c_pdf),
     Part("resume", name_cv_PDF,     mime_pdf,       c_pdf),
     Part("resume", name_cv_doc,     mime_pdf,       c_pdf),
     Part("resume", name_cv_pdf,     mime_pdf,       c_text),
     Part("resume", name_cv_pdf,     mime_pdf,       c_empty),
     Part("resume", name_cv_pdf,     mime_pdf,       c_pdf_big),
     Part("resume", name_cv_pdf,     mime_pdf,       c_pdf_mz),
     Part("resume", name_cv_pdf,     mime_PDF_upper, c_text),
     Part("resume", name_cv_pdf,     mime_html,      c_pdf),
     Part("resume", name_cv_doc,     mime_msword,    c_empty),
     Part("resume", name_cv_pdf_exe, mime_pdf,       c_pdf),
     Part("resume", name_cv_exe_pdf, mime_pdf,       c_pdf),
     Part("resume", name_sep,        mime_pdf,       c_pdf),
     Part("resume", name_sep,        mime_pdf,       c_empty),
     Part("resume", name_ctrl,       mime_pdf,       c_pdf),
     Part("resume", name_long,       mime_pdf,       c_pdf),
     Part("photo",  name_cv_pdf,     mime_pdf,       c_pdf)}

VoiceParts ==
    {Part("audio", name_v_mp3, mime_mpeg, c_mp3),
     Part("audio", name_v_mp3, mime_mpeg, c_mp3_mz),
     Part("audio", name_v_mp3, mime_mpeg, c_text),
     Part("audio", name_v_ogg, mime_ogg,  c_empty),
     Part("audio", name_v_ogg, mime_ogg,  c_text)}

MultiParts ==
    {Part("documents", name_t_txt,  mime_text, c_text),
     Part("documents", name_cv_pdf, mime_pdf,  c_pdf),
     Part("documents", name_cv_pdf, mime_pdf,  c_text),
     Part("resume",    name_cv_pdf, mime_pdf,  c_pdf_big),
     Part("photo",     name_i_png,  mime_png,  c_png)}

Routes == {"job", "voice", "multi"}

partsOf(route) ==
    CASE route = "job" -> JobParts
      [] route = "voice" -> VoiceParts
      [] route = "multi" -> MultiParts

\* the maxTotalSize a caller passes to uploadMultiple
maxTotalSizes == {MiB, 0}

----------------------------------------------------------------------------
(* State *)

NoResponse == [status |-> 0, error |-> ""]

NoRequest == [route |-> "", maxTotalSize |-> 0, parts |-> <<>>]

\* no request is in the cleanupOldFiles middleware
NoSweep == [pc |-> "off", files |-> <<>>, i |-> 0, cleanedCount |-> 0, nextCalls |-> 0,
            failed |-> FALSE]

\* checkDiskSpace has not run
NoProbe == [done |-> FALSE, failed |-> FALSE, free |-> 0]

Init ==
    /\ disk = <<>>
    /\ req = [r \in Reqs |-> NoRequest]
    /\ pc = [r \in Reqs |-> "idle"]
    /\ idx = [r \in Reqs |-> 0]
    /\ files = [r \in Reqs |-> <<>>]
    /\ fileMetadata = [r \in Reqs |-> <<>>]
    /\ nextCalls = [r \in Reqs |-> <<>>]
    /\ response = [r \in Reqs |-> NoResponse]
    /\ hashCount = [r \in Reqs |-> 0]
    /\ scanned = [r \in Reqs |-> {}]
    /\ probe = [r \in Reqs |-> NoProbe]
    /\ ioFault = [r \in Reqs |-> FALSE]
    /\ cleanupFault = [r \in Reqs |-> FALSE]
    /\ mtime = <<>>
    /\ sweep = NoSweep

\* the file processUploadedFiles is at, and its position in files[r]
current(r) == getAllFilesOrder(files[r])[idx[r]]
currentFile(r) == files[r][current(r)]

\* Reject without the return after next(error): the error is passed, and the
\* catch that follows passes it again
Reject_nextTwice(r, d, error) ==
    /\ \E unlinkThrows \in BOOLEAN :
        LET fs == getAllFiles(files[r])
            called == \E k \in 1..Len(fs) : exists(d, fs[k].path)
        IN  /\ disk' = IF unlinkThrows THEN d ELSE cleanupTempFiles(d, fs)
            /\ cleanupFault' = [cleanupFault EXCEPT ![r] = unlinkThrows /\ called]
    /\ nextCalls' = [nextCalls EXCEPT ![r] = Append(Append(@, error), error)]
    /\ pc' = [pc EXCEPT ![r] = "done"]

\* Reject with a cleanupTempFiles that lets the error of unlinkSync escape: it
\* is then the error next() receives
Reject_cleanupThrows(r, d, error) ==
    /\ \E unlinkThrows \in BOOLEAN :
        LET fs == getAllFiles(files[r])
            called == \E k \in 1..Len(fs) : exists(d, fs[k].path)
        IN  /\ disk' = IF unlinkThrows THEN d ELSE cleanupTempFiles(d, fs)
            /\ cleanupFault' = [cleanupFault EXCEPT ![r] = unlinkThrows /\ called]
            /\ nextCalls' = [nextCalls EXCEPT ![r] =
                                Append(@, IF unlinkThrows /\ called
                                          THEN [name |-> "Error", message |-> <<"EPERM">>]
                                          ELSE error)]
    /\ pc' = [pc EXCEPT ![r] = "done"]

\* wrapMulter's catch (processingError) and its other rejections: clean up, next(error).
\* cleanupTempFiles catches what unlinkSync throws and only logs it: the files
\* then stay, and the error is passed on all the same.  unlinkSync works, or
\* throws, for every file of the request.
Reject(r, d, error) ==
    /\ \E unlinkThrows \in BOOLEAN :
        LET fs == getAllFiles(files[r])
            called == \E k \in 1..Len(fs) : exists(d, fs[k].path)
        IN  /\ disk' = IF unlinkThrows THEN d ELSE cleanupTempFiles(d, fs)
            /\ cleanupFault' = [cleanupFault EXCEPT ![r] = unlinkThrows /\ called]
    /\ nextCalls' = [nextCalls EXCEPT ![r] = Append(@, error)]
    /\ pc' = [pc EXCEPT ![r] = "done"]

\* the end of wrapMulter's try block: req.fileMetadata, next()
Accept(r, fs) ==
    /\ fileMetadata' = [fileMetadata EXCEPT ![r] = extractFileMetadata(fs)]
    /\ nextCalls' = [nextCalls EXCEPT ![r] = Append(@, NoError)]
    /\ pc' = [pc EXCEPT ![r] = afterUpload(req[r].route)]

----------------------------------------------------------------------------
(* Actions *)

\* a request reaches a route; requests are numbered in order of arrival
Arrive(r) ==
    /\ pc[r] = "idle"
    /\ IF r = 1 THEN TRUE ELSE pc[r - 1] # "idle"
    /\ \E route \in Routes :
       \E m \in (IF route = "multi" THEN maxTotalSizes ELSE {0}) :
          req' = [req EXCEPT ![r] = [route |-> route, maxTotalSize |-> m, parts |-> <<>>]]
    /\ pc' = [pc EXCEPT ![r] = "multer"]
    /\ UNCHANGED <<disk, idx, files, fileMetadata, nextCalls, response, hashCount, scanned, probe, ioFault, cleanupFault, mtime, sweep>>

\* multer handles the next file part of the request: the file filter, then the
\* disk storage under the size limit.  On an error multer removes the files it
\* has stored for the request and calls back with the error; wrapMulter then runs
\* cleanupTempFiles and passes a ValidationException to next.
MulterPart(r) ==
    /\ pc[r] = "multer"
    /\ Len(req[r].parts) < MaxParts
    /\ \E part \in partsOf(req[r].route) :
        LET cfg   == multerConfig(req[r].route)
            error == multerReject(cfg, files[r], part)
            file  == multerFile(cfg, r, Len(req[r].parts) + 1, part)
        IN  /\ req' = [req EXCEPT ![r].parts = Append(@, part)]
            /\ IF error = <<>>
               THEN /\ disk' = write(disk, file.path, part.content)
                    /\ files' = [files EXCEPT ![r] = Append(@, file)]
                    /\ UNCHANGED <<pc, nextCalls, cleanupFault>>
               ELSE /\ Reject(r, removeUploadedFiles(disk, files[r]), handleMulterError(error))
                    /\ UNCHANGED files
    /\ UNCHANGED <<idx, fileMetadata, response, hashCount, scanned, probe, ioFault, mtime, sweep>>

\* multer calls back without error: the aggregate size check, then
\* processUploadedFiles starts (or, with no file, ends at once)
UploadDone(r) ==
    /\ pc[r] = "multer"
    /\ IF req[r].maxTotalSize # 0 /\ req[r].route = "multi"
          /\ calculateTotalSize(files[r]) > req[r].maxTotalSize
       THEN /\ Reject(r, disk, TotalSizeError)
            /\ UNCHANGED <<idx, fileMetadata>>
       ELSE IF files[r] = <<>>
       THEN /\ Accept(r, files[r])
            /\ UNCHANGED <<disk, idx, cleanupFault>>
       ELSE /\ pc' = [pc EXCEPT ![r] = "hash"]
            /\ idx' = [idx EXCEPT ![r] = 1]
            /\ UNCHANGED <<disk, fileMetadata, nextCalls, cleanupFault>>
    /\ UNCHANGED <<req, files, response, hashCount, scanned, probe, ioFault, mtime, sweep>>

\* processUploadedFiles: generateFileHash of the current file; the read stream
\* may fail
HashFile(r) ==
    /\ pc[r] = "hash"
    /\ hashCount' = [hashCount EXCEPT ![r] = @ + 1]
    /\ \E streamError \in BOOLEAN :
        /\ ioFault' = [ioFault EXCEPT ![r] = @ \/ streamError]
        /\ IF streamError \/ ~exists(disk, currentFile(r).path)
           THEN /\ Reject(r, disk, IOError)
                /\ UNCHANGED files
           ELSE /\ files' = [files EXCEPT ![r][current(r)] =
                               @ @@ [hash |-> sha256(disk[currentFile(r).path])]]
                /\ pc' = [pc EXCEPT ![r] = "validate"]
                /\ UNCHANGED <<disk, nextCalls, cleanupFault>>
    /\ UNCHANGED <<req, idx, fileMetadata, response, scanned, probe, mtime, sweep>>

\* processUploadedFiles: validateFileContent of the current file
ValidateFile(r) ==
    /\ pc[r] = "validate"
    /\ IF validateFileContent(disk, currentFile(r))
       THEN /\ pc' = [pc EXCEPT ![r] = "move"]
            /\ UNCHANGED <<disk, nextCalls, cleanupFault>>
       ELSE Reject(r, disk, InvalidContentError)
    /\ UNCHANGED <<req, idx, files, fileMetadata, response, hashCount, scanned, probe, ioFault, mtime, sweep>>

\* processUploadedFiles: moveFileToFinalLocation of the current file (renameSync
\* or unlinkSync may throw), then the next file or the end of the try block
MoveFile(r) ==
    /\ pc[r] = "move"
    /\ \E fsError \in BOOLEAN :
        /\ ioFault' = [ioFault EXCEPT ![r] = @ \/ fsError]
        /\ IF fsError \/ ~exists(disk, currentFile(r).path)
           THEN /\ Reject(r, disk, IOError)
                /\ UNCHANGED <<files, idx, fileMetadata>>
           ELSE LET fs == [files[r] EXCEPT ![current(r)] =
                               @ @@ [finalPath |-> finalPathOf(currentFile(r))]]
                IN  /\ disk' = moveFileToFinalLocation(disk, currentFile(r))
                    /\ files' = [files EXCEPT ![r] = fs]
                    /\ IF idx[r] < Len(files[r])
                       THEN /\ idx' = [idx EXCEPT ![r] = @ + 1]
                            /\ pc' = [pc EXCEPT ![r] = "hash"]
                            /\ UNCHANGED <<fileMetadata, nextCalls, cleanupFault>>
                       ELSE /\ Accept(r, fs)
                            /\ UNCHANGED <<idx, cleanupFault>>
    /\ UNCHANGED <<req, response, hashCount, scanned, probe, mtime, sweep>>

\* ValidationMiddleware.validate / validateXSS / sanitize on the request body:
\* the body is accepted, or the request ends with a 400 response
ValidateBody(r) ==
    /\ pc[r] = "body"
    /\ \E valid \in BOOLEAN :
        IF valid
        THEN /\ pc' = [pc EXCEPT ![r] = IF req[r].route = "job" THEN "disk" ELSE "controller"]
             /\ UNCHANGED response
        ELSE /\ pc' = [pc EXCEPT ![r] = "done"]
             /\ response' = [response EXCEPT ![r] =
                                [status |-> 400, error |-> "Validation Error"]]
    /\ UNCHANGED <<disk, req, idx, files, fileMetadata, nextCalls, hashCount, scanned, probe, ioFault, cleanupFault, mtime, sweep>>

\* free space, in KiB, that `df -k` may report: under, at and over 2 GiB
KiBPerGiB == 1048576
freeSpaces == {KiBPerGiB, 2 * KiBPerGiB, 3 * KiBPerGiB}

\* the minFreeSpaceGB the job-application route passes to checkDiskSpace
MinFreeSpaceGB == 2

\* the test of checkDiskSpace with <= in place of <
lowDiskSpace_orEqual(availKiB, minFreeSpaceGB) ==
    availKiB <= minFreeSpaceGB * KiBPerGiB

\* the test of checkDiskSpace, free < minFreeSpaceBytes, where free is the
\* KiB count of `df -k` times 1024 and minFreeSpaceBytes is
\* minFreeSpaceGB * 1024 * 1024 * 1024: both sides are kept in KiB here
lowDiskSpace(availKiB, minFreeSpaceGB) ==
    availKiB < minFreeSpaceGB * KiBPerGiB

\* checkDiskSpace(2): 507 when the probe succeeds and reports less than the
\* minimum; next() otherwise, also when statSync or the probe throws (the catch)
checkDiskSpace(r) ==
    /\ pc[r] = "disk"
    /\ \E probeFails \in BOOLEAN : \E availKiB \in freeSpaces :
        LET free == availKiB
        IN  /\ probe' = [probe EXCEPT ![r] =
                            [done |-> TRUE, failed |-> probeFails,
                             free |-> IF probeFails THEN 0 ELSE free]]
            /\ IF ~probeFails /\ lowDiskSpace(free, MinFreeSpaceGB)
               THEN /\ pc' = [pc EXCEPT ![r] = "done"]
                    /\ response' = [response EXCEPT ![r] =
                                       [status |-> 507, error |-> "Insufficient Storage"]]
               ELSE /\ pc' = [pc EXCEPT ![r] = "scan"]
                    /\ UNCHANGED response
    /\ UNCHANGED <<disk, req, idx, files, fileMetadata, nextCalls, hashCount, scanned, ioFault, cleanupFault, mtime, sweep>>

\* antivirusScan: the first file performAntivirusScan reports unsafe ends the
\* request with cleanupTempFiles and a 400 response; next() when every file is safe
antivirusScan(r) ==
    /\ pc[r] = "scan"
    /\ LET fs     == getAllFiles(files[r])
           unsafe == {k \in 1..Len(fs) : ~performAntivirusScan(disk, fs[k])}
       IN  IF unsafe # {}
           THEN /\ disk' = cleanupTempFiles(disk, fs)
                /\ response' = [response EXCEPT ![r] =
                                   [status |-> 400, error |-> "Malicious File Detected"]]
                /\ pc' = [pc EXCEPT ![r] = "done"]
                /\ scanned' = [scanned EXCEPT ![r] =
                                  {k \in 1..Len(fs) : \A u \in unsafe : k < u}]
           ELSE /\ pc' = [pc EXCEPT ![r] = "controller"]
                /\ scanned' = [scanned EXCEPT ![r] = 1..Len(fs)]
                /\ UNCHANGED <<disk, response>>
    /\ UNCHANGED <<req, idx, files, fileMetadata, nextCalls, hashCount, probe, ioFault, cleanupFault, mtime, sweep>>

\* the controller: FormController.submitJobApplication answers 201, or its use
\* case throws and the catch unlinks req.file.path before next(error);
\* ChatController.sendMessage does not touch the uploaded file
Controller(r) ==
    /\ pc[r] = "controller"
    /\ pc' = [pc EXCEPT ![r] = "done"]
    /\ \E throws \in BOOLEAN :
        IF ~throws
        THEN /\ response' = [response EXCEPT ![r] =
                                [status |-> IF req[r].route = "job" THEN 201 ELSE 200,
                                 error |-> ""]]
             /\ UNCHANGED disk
        ELSE /\ response' = [response EXCEPT ![r] =
                                [status |-> 500, error |-> "Internal Server Error"]]
             /\ disk' = IF req[r].route = "job" THEN cleanupTempFiles(disk, files[r]) ELSE disk
    /\ UNCHANGED <<req, idx, files, fileMetadata, nextCalls, hashCount, scanned, probe, ioFault, cleanupFault, mtime, sweep>>

Next ==
    \E r \in Reqs :
        \/ Arrive(r)
        \/ MulterPart(r)
        \/ UploadDone(r)
        \/ HashFile(r)
        \/ ValidateFile(r)
        \/ MoveFile(r)
        \/ ValidateBody(r)
        \/ checkDiskSpace(r)
        \/ antivirusScan(r)
        \/ Controller(r)

Spec == Init /\ [][Next]_vars

----------------------------------------------------------------------------
(* Vocabulary of the properties. *)

\* the rejection reason an error passed to next() stands for
reasonOf(error) ==
    LET m == error.message
    IN  CASE error = NoError -> ""
          [] m[1] = "Archivo demasiado grande" -> "FileTooLarge"
          [] m[1] = "Demasiados archivos" -> "TooManyFiles"
          [] m[1] = "Campo de archivo inesperado" -> "UnexpectedField"
          [] m[1] = "Contenido de archivo inválido" -> "InvalidContent"
          [] m[1] = "Tamaño total de archivos excede el límite" -> "TotalTooLarge"
          [] m[1] = "Error subiendo archivo" /\ m[2] = "Extensión no permitida" -> "InvalidExtension"
          [] m[1] = "Error subiendo archivo" /\ m[2] = "Tipo de archivo no permitido" -> "InvalidMimeType"
          [] m[1] = "Error subiendo archivo" /\ m[2] = "El archivo está vacío" -> "EmptyFile"
          [] m[1] = "Error subiendo archivo" -> "FilenameUnsafe"
          [] OTHER -> "IOError"

Done(r) == pc[r] = "done"

\* the upload middleware of r passed an error to next(), or a later middleware
\* or the controller answered with an error status
Rejected(r) ==
    \/ \E k \in 1..Len(nextCalls[r]) : nextCalls[r][k] # NoError
    \/ response[r].status >= 400

\* the upload middleware of r ended with req.fileMetadata set and next()
Ingested(r) == nextCalls[r] = <<NoError>>

FileIds == {<<r, k>> : r \in Reqs, k \in 1..MaxParts}
Uploaded == {id \in FileIds : id[2] <= Len(files[id[1]])}
fileOf(id) == files[id[1]][id[2]]

\* the part a file object was made from, and the bytes the client sent for it
partOf(id) == req[id[1]].parts[fileOf(id).path.stem[3]]
contentOf(id) == partOf(id).content

\* the FILE_CONFIGS entry that governs a field of a route
categoryOf(route, fieldname) ==
    LET cfg == multerConfig(route)
    IN  cfg.fields[CHOOSE k \in 1..Len(cfg.fields) : cfg.fields[k].name = fieldname].type

Stored(id) == "finalPath" \in DOMAIN fileOf(id)

\* the paths a request has written to: the names multer gave its parts
tempPathsOf(r) == {p \in DOMAIN disk : p.stem[1] = "tmp" /\ p.stem[2] = r}

----------------------------------------------------------------------------
(* C1 *)

\* C1 (as stated): any two ingested files with byte-identical content in the
\* same category have the same final path.
C1_SameContentSamePath ==
    \A a, b \in Uploaded :
        (/\ Ingested(a[1]) /\ Ingested(b[1])
         /\ categoryOf(req[a[1]].route, fileOf(a).fieldname)
              = categoryOf(req[b[1]].route, fileOf(b).fieldname)
         /\ contentOf(a) = contentOf(b))
        => fileOf(a).finalPath = fileOf(b).finalPath

\* C1 (amended): two ingested files with byte-identical content, the same file
\* name extension and the same declared MIME type have the same content hash and
\* the same final path, that path holds the content, and it is the only file the
\* two ingests have left on disk.
C1_IdempotentStorage ==
    \A a, b \in Uploaded :
        (/\ Ingested(a[1]) /\ Ingested(b[1])
         /\ contentOf(a) = contentOf(b)
         /\ extname(fileOf(a).originalname) = extname(fileOf(b).originalname)
         /\ fileOf(a).mimetype = fileOf(b).mimetype)
        => /\ fileOf(a).hash = fileOf(b).hash
           /\ fileOf(a).finalPath = fileOf(b).finalPath
           /\ exists(disk, fileOf(a).finalPath)
           /\ disk[fileOf(a).finalPath] = contentOf(a)
           /\ {fileOf(a).path, fileOf(b).path, fileOf(a).finalPath} \cap DOMAIN disk
                = {fileOf(a).finalPath}

\* two different uploads of the same content, extension and MIME type, both ingested
C1_Witness ==
    \E a, b \in Uploaded :
        /\ a # b
        /\ Ingested(a[1]) /\ Ingested(b[1])
        /\ contentOf(a) = contentOf(b)
        /\ extname(fileOf(a).originalname) = extname(fileOf(b).originalname)
        /\ fileOf(a).mimetype = fileOf(b).mimetype

----------------------------------------------------------------------------
(* C2 *)

\* C2: once a request has completed with a rejection, none of the files multer
\* wrote for it while receiving its parts is left on disk (on the normal failure
\* paths: no unlinkSync of the cleanup has thrown).
C2_NoOrphans ==
    \A r \in Reqs : (Done(r) /\ Rejected(r) /\ ~cleanupFault[r]) => tempPathsOf(r) = {}

\* a batch of two stored parts rejected after the upload, with nothing left behind
C2_Witness ==
    \E r \in Reqs :
        /\ Done(r) /\ Len(files[r]) = 2
        /\ nextCalls[r] # <<>>
        /\ reasonOf(nextCalls[r][1]) \in {"TotalTooLarge", "InvalidContent", "IOError"}
        /\ tempPathsOf(r) = {}

----------------------------------------------------------------------------
(* C3 *)

\* the leading bytes of a content match a signature registered for a MIME type
matchesSignature(mimetype, content) ==
    \E magic \in magicBytes[mimetype] :
        /\ Len(magic) <= content.size
        /\ Len(magic) <= Len(content.head)
        /\ \A k \in 1..Len(magic) : content.head[k] = magic[k]

\* C3: a file declared with a MIME type that has a registered signature, whose
\* leading bytes match none of them, is never moved to a final directory and
\* never reaches FileMetadata; the request that reached its content check has
\* ended with InvalidContent.
C3_ContentTypeEnforced ==
    \A id \in Uploaded :
        (/\ fileOf(id).mimetype \in DOMAIN magicBytes
         /\ ~matchesSignature(fileOf(id).mimetype, contentOf(id)))
        => /\ ~Stored(id)
           /\ fileMetadata[id[1]] = <<>>
           /\ (Done(id[1]) /\ "hash" \in DOMAIN fileOf(id))
                => reasonOf(nextCalls[id[1]][1]) = "InvalidContent"

\* a file declared application/pdf without the %PDF signature, rejected
C3_Witness ==
    \E id \in Uploaded :
        /\ fileOf(id).mimetype = mime_pdf
        /\ ~matchesSignature(mime_pdf, contentOf(id))
        /\ "hash" \in DOMAIN fileOf(id)
        /\ Done(id[1])
        /\ reasonOf(nextCalls[id[1]][1]) = "InvalidContent"

----------------------------------------------------------------------------
(* C4 *)

\* C4 (as stated): every FileMetadata attached to a request belongs to a file
\* whose malware scan has completed successfully.
C4_MetadataOnlyAfterScan ==
    \A r \in Reqs : \A k \in 1..Len(fileMetadata[r]) : k \in scanned[r]

----------------------------------------------------------------------------
(* C5 *)

\* no malware pattern in the first 1 KiB of a content
cleanContent(content) ==
    \A pattern \in maliciousPatterns : ~includes(Buffer(ScanBufferSize, content), pattern)

\* C5 (as stated): on the job-application route, a request whose resume was
\* ingested and is free of malware patterns, and which neither the body
\* validation nor the disk guard turned down, reaches the controller.
C5_ValidResumeReachesController ==
    \A r \in Reqs :
        (/\ req[r].route = "job"
         /\ Done(r)
         /\ Ingested(r)
         /\ Len(files[r]) = 1
         /\ cleanContent(contentOf(<<r, 1>>))
         /\ response[r].error \notin {"Validation Error", "Insufficient Storage"})
        => /\ response[r].status \in {201, 500}
           /\ exists(disk, fileOf(<<r, 1>>).finalPath)

----------------------------------------------------------------------------
(* C6 *)

\* the summed size of the parts multer has stored for a request
RECURSIVE sizeOfFirst(_, _)
sizeOfFirst(r, n) == IF n = 0 THEN 0 ELSE contentOf(<<r, n>>).size + sizeOfFirst(r, n - 1)
batchSize(r) == sizeOfFirst(r, Len(files[r]))

\* no file of the batch is processed, and once the request is done it has been
\* rejected and has left no temp file (unless an unlinkSync of the cleanup threw)
BatchRejected(r) ==
    /\ \A k \in 1..Len(files[r]) : ~Stored(<<r, k>>)
    /\ fileMetadata[r] = <<>>
    /\ ~Ingested(r)
    /\ Done(r) => (Rejected(r) /\ (cleanupFault[r] \/ tempPathsOf(r) = {}))

\* C6 (as stated): a batch whose summed size exceeds the caller's ceiling is
\* rejected as a whole.
C6_OverCeilingRejected ==
    \A r \in Reqs :
        (req[r].route = "multi" /\ batchSize(r) > req[r].maxTotalSize) => BatchRejected(r)

\* C6 (amended): a batch whose summed size exceeds a non-zero ceiling is rejected
\* as a whole: none of its files reaches a final directory and every temp file
\* of the batch is deleted.
C6_BatchAtomicity ==
    \A r \in Reqs :
        (/\ req[r].route = "multi"
         /\ req[r].maxTotalSize # 0
         /\ batchSize(r) > req[r].maxTotalSize)
        => BatchRejected(r)

\* a batch of two files, each under the ceiling, rejected for their sum
C6_Witness ==
    \E r \in Reqs :
        /\ req[r].route = "multi" /\ req[r].maxTotalSize # 0
        /\ Len(files[r]) = 2
        /\ batchSize(r) > req[r].maxTotalSize
        /\ Done(r)
        /\ reasonOf(nextCalls[r][1]) = "TotalTooLarge"

----------------------------------------------------------------------------
(* C7 *)

\* C7 (as stated): a file larger than the maxSize of its own category is never
\* hashed (it is rejected before).
C7_OversizedNeverHashed ==
    \A id \in Uploaded :
        contentOf(id).size
            > FILE_CONFIGS[categoryOf(req[id[1]].route, fileOf(id).fieldname)].maxSize
        => "hash" \notin DOMAIN fileOf(id)

----------------------------------------------------------------------------
(* C8 *)

\* C8 (as stated): a zero-byte upload never reaches a final directory and never
\* produces FileMetadata.
C8_EmptyFileRejected ==
    \A id \in Uploaded :
        contentOf(id).size = 0 => (~Stored(id) /\ fileMetadata[id[1]] = <<>>)

----------------------------------------------------------------------------
(* C9, C10 *)

\* part j of request r got as far as the file filter of its field: the request's
\* file count and the field's maxCount still had room for it
reachesFilter(r, j) ==
    LET cfg  == multerConfig(req[r].route)
        name == req[r].parts[j].fieldname
    IN  /\ j <= cfg.files
        /\ \E k \in 1..Len(cfg.fields) :
              /\ cfg.fields[k].name = name
              /\ Cardinality({i \in 1..(j - 1) : req[r].parts[i].fieldname = name})
                    < cfg.fields[k].maxCount

\* part j of request r was stored by multer
accepted(r, j) == \E k \in 1..Len(files[r]) : files[r][k].path.stem[3] = j

\* extension and declared MIME type of a part are allowed in its category
typeAllowed(r, j) ==
    LET part   == req[r].parts[j]
        config == FILE_CONFIGS[categoryOf(req[r].route, part.fieldname)]
    IN  /\ toLowerCase(extname(part.originalname)) \in config.extensions
        /\ toLowerCase(part.mimetype) \in config.mimeTypes

\* a path separator or a control character in the name, or more than 255 characters
unsafeName(name) ==
    \/ \E k \in 1..Len(name) : name[k] \in {47, 92} \cup (0..31)
    \/ Len(name) > 255

rejectedAs(r, j, reason) ==
    /\ ~accepted(r, j)
    /\ Done(r)
    /\ j = Len(req[r].parts)
    /\ reasonOf(nextCalls[r][1]) = reason

executableSuffix(name) ==
    LET parts == split(name)
    IN  /\ Len(parts) > 2
        /\ \E k \in 2..Len(parts) : (<<46>> \o toLowerCase(parts[k])) \in suspiciousExtensions

\* C10 (as stated): a part whose name has an executable suffix among several is
\* rejected as FilenameUnsafe, whatever its declared MIME type and extension.
C10_ExecutableSuffixUnsafe ==
    \A r \in Reqs : \A j \in 1..Len(req[r].parts) :
        (reachesFilter(r, j) /\ executableSuffix(req[r].parts[j].originalname))
        => rejectedAs(r, j, "FilenameUnsafe")

----------------------------------------------------------------------------
(* C11 *)

\* the request went on to the middleware after checkDiskSpace
passedDiskGuard(r) ==
    \/ pc[r] \in {"scan", "controller"}
    \/ /\ Done(r)
       /\ response[r].status \in {201, 400, 500}
       /\ response[r].error # "Insufficient Storage"

\* C11: a request is answered 507 Insufficient Storage exactly when its
\* free-space probe succeeded and reported less than 2 GiB; when the probe
\* failed, or reported 2 GiB or more, the request went on to the next middleware.
C11_DiskGuardFailOpen ==
    \A r \in Reqs :
        /\ (response[r].status = 507 /\ response[r].error = "Insufficient Storage")
             <=> (probe[r].done /\ ~probe[r].failed /\ probe[r].free < 2 * 1024 * 1024)
        /\ response[r].status = 507 => Done(r)
        /\ (probe[r].done /\ (probe[r].failed \/ probe[r].free >= 2 * 1024 * 1024))
             => passedDiskGuard(r)

\* one request turned down for low space, another let through by a failed probe
C11_Witness ==
    \E r1, r2 \in Reqs :
        /\ response[r1].status = 507 /\ probe[r1].free = 1024 * 1024
        /\ probe[r2].done /\ probe[r2].failed /\ pc[r2] = "scan"

----------------------------------------------------------------------------
(* C12 *)

\* the files of request r that are on disk, under the name multer gave them or
\* under the final path they were moved to
filesOnDiskOf(r) ==
    {k \in 1..Len(files[r]) :
        \/ exists(disk, files[r][k].path)
        \/ Stored(<<r, k>>) /\ exists(disk, files[r][k].finalPath)}

\* C12 (as stated): no file of a request is written or moved before the disk
\* guard has let the request pass, and a request answered Insufficient Storage
\* leaves no file on disk.
C12_GuardBeforeUpload ==
    \A r \in Reqs :
        /\ files[r] # <<>> => (probe[r].done /\ response[r].status # 507)
        /\ response[r].status = 507 => filesOnDiskOf(r) = {}

----------------------------------------------------------------------------
(* C13 *)

\* two uploads of byte-identical content of the same type: same declared MIME
\* type and same file name extension
sameUpload(a, b) ==
    /\ contentOf(a) = contentOf(b)
    /\ fileOf(a).mimetype = fileOf(b).mimetype
    /\ extname(fileOf(a).originalname) = extname(fileOf(b).originalname)

\* the content passes the magic-byte verification of its declared MIME type
validContent(id) ==
    fileOf(id).mimetype \in DOMAIN magicBytes
        => matchesSignature(fileOf(id).mimetype, contentOf(id))

\* processUploadedFiles of request r is at file k
processing(r, k) == pc[r] \in {"hash", "validate", "move"} /\ current(r) = k

\* processUploadedFiles of request r has started and is over
processed(r) ==
    /\ pc[r] \notin {"idle", "multer", "hash", "validate", "move"}
    /\ \E k \in 1..Len(files[r]) : "hash" \in DOMAIN files[r][k]

\* C13: for two requests that upload the same content with the same type, in
\* every interleaving of their steps: the temp file a request is working on is
\* there whenever it hashes, verifies or moves it (the other request never
\* makes the store step fail); a request whose files all pass verification and
\* that met no I/O fault ends ingested; and once both files are stored they
\* share one final path that holds the content, with neither temp file left.
C13_ConcurrentIdenticalUploads ==
    \A a, b \in Uploaded :
        (a[1] # b[1] /\ sameUpload(a, b))
        => /\ processing(a[1], a[2]) => exists(disk, fileOf(a).path)
           /\ (/\ processed(a[1])
               /\ ~ioFault[a[1]]
               /\ \A k \in 1..Len(files[a[1]]) : validContent(<<a[1], k>>))
                => (Ingested(a[1]) /\ Stored(a))
           /\ (Stored(a) /\ Stored(b))
                => /\ fileOf(a).finalPath = fileOf(b).finalPath
                   /\ exists(disk, fileOf(a).finalPath)
                   /\ disk[fileOf(a).finalPath] = contentOf(a)
                   /\ ~exists(disk, fileOf(a).path)
                   /\ ~exists(disk, fileOf(b).path)

\* the request that arrived first is about to move its file when the request
\* that arrived second has already stored the same content at the same path
C13_Witness ==
    \E a, b \in Uploaded :
        /\ a[1] < b[1]
        /\ sameUpload(a, b)
        /\ pc[a[1]] = "move" /\ current(a[1]) = a[2]
        /\ Stored(b) /\ Ingested(b[1])
        /\ exists(disk, fileOf(b).finalPath)
        /\ exists(disk, fileOf(a).path)

----------------------------------------------------------------------------
(* C14 *)

\* C14 (as stated): the path of every FileMetadata is
\* <directory of its MIME type>/<hash><extension> with the hash and the
\* extension the same FileMetadata reports, and the hash is the SHA-256 of the
\* bytes stored at that path.
C14_FinalPathDerived ==
    \A r \in Reqs : \A k \in 1..Len(fileMetadata[r]) :
        LET m == fileMetadata[r][k]
        IN  /\ m.path = Path(finalSubdir(m.mimetype), m.hash, m.extension)
            /\ exists(disk, m.path) => m.hash = sha256(disk[m.path])

----------------------------------------------------------------------------
(* C15 *)

finalDirs == {"resumes", "images", "audio", "documents"}

\* C15 (as stated): every file in a final directory is named after the SHA-256
\* of its own content; a file a request is still receiving or processing is
\* only in the temp directory.
C15_FinalDirsHoldHashNames ==
    \A p \in DOMAIN disk :
        p.dir \in finalDirs => (p.stem = sha256(disk[p]) /\ p.stem[1] # "tmp")

----------------------------------------------------------------------------
(* C16 *)

\* ErrorHandlerMiddleware.processError for the errors the upload middlewares
\* pass to next(): what the error handler sends to the client
processError(error) ==
    IF error.name = "ValidationException"
    THEN [statusCode |-> 400, error |-> "Validation Error",
          code |-> "VALIDATION_FAILED", message |-> error.message]
    ELSE [statusCode |-> 500, error |-> "Internal Server Error",
          code |-> "INTERNAL_ERROR",
          message |-> <<"Ha ocurrido un error interno del servidor">>]

\* the upload middleware of r passed an error to next()
nextError(r) == nextCalls[r] # <<>> /\ nextCalls[r][1] # NoError

\* why request r was turned down: the branch of the code that rejected it
causeOf(r) ==
    IF nextError(r) THEN reasonOf(nextCalls[r][1])
    ELSE IF response[r].error = "Malicious File Detected" THEN "MaliciousContent"
    ELSE IF response[r].error = "Insufficient Storage" THEN "InsufficientStorage"
    ELSE ""

\* the code the caller receives with the rejection: the code field the error
\* handler sends, or the error field of a response an upload middleware sent
reasonCodeOf(r) ==
    IF nextError(r) THEN processError(nextCalls[r][1]).code ELSE response[r].error

NineCauses ==
    {"FileTooLarge", "TooManyFiles", "UnexpectedField", "InvalidExtension",
     "InvalidMimeType", "InvalidContent", "MaliciousContent", "FilenameUnsafe",
     "InsufficientStorage"}

\* C16 (as stated): two rejections with different causes among the nine carry
\* different reason codes.
C16_ReasonCodesDistinguish ==
    \A r1, r2 \in Reqs :
        (/\ Done(r1) /\ Done(r2)
         /\ causeOf(r1) \in NineCauses /\ causeOf(r2) \in NineCauses
         /\ causeOf(r1) # causeOf(r2))
        => reasonCodeOf(r1) # reasonCodeOf(r2)

----------------------------------------------------------------------------
(* C17 *)

\* the malware scan has reported the file safe
scannedClean(id) ==
    \E k \in scanned[id[1]] : getAllFilesOrder(files[id[1]])[k] = id[2]

\* C17 (as stated): a file is hashed at most once, and only when its content
\* has passed the magic-byte verification and its malware scan has reported it
\* safe.
C17_HashAfterChecks ==
    /\ \A r \in Reqs : hashCount[r] <= Len(files[r])
    /\ \A id \in Uploaded :
          "hash" \in DOMAIN fileOf(id) => (validContent(id) /\ scannedClean(id))

----------------------------------------------------------------------------
(* C18 *)

\* C18 (as stated): a file is in a final directory only after its malware scan
\* has reported it safe, and once a request is done none of its files that
\* the scanner flags is in a final directory.
C18_StoredOnlyAfterCleanScan ==
    \A id \in Uploaded :
        /\ Stored(id) => scannedClean(id)
        /\ (Done(id[1]) /\ Stored(id) /\ ~cleanContent(contentOf(id)))
             => ~exists(disk, fileOf(id).finalPath)

----------------------------------------------------------------------------
(* C19 *)

\* the FILE_CONFIGS entry of the category part j of request r is uploaded to
configOf(r, j) == FILE_CONFIGS[categoryOf(req[r].route, req[r].parts[j].fieldname)]

\* the extension of the part's file name, ignoring case, is one of the category's
extensionAllowed(r, j) ==
    toLowerCase(extname(req[r].parts[j].originalname)) \in configOf(r, j).extensions

\* nothing of part j of request r is on disk
neverWritten(r, j) ==
    /\ ~accepted(r, j)
    /\ \A p \in DOMAIN disk : p.stem # <<"tmp", r, j>>

\* the part is accepted only with an allowed type, and is rejected with the
\* reason the claim names when its extension or its MIME type is not allowed
filteredBy(r, j, mimeAllowed) ==
    /\ accepted(r, j) => (extensionAllowed(r, j) /\ mimeAllowed)
    /\ ~extensionAllowed(r, j)
         => (rejectedAs(r, j, "InvalidExtension") /\ neverWritten(r, j))
    /\ (extensionAllowed(r, j) /\ ~mimeAllowed)
         => (rejectedAs(r, j, "InvalidMimeType") /\ neverWritten(r, j))

\* C19 (as stated): a part is accepted only if its extension, ignoring case,
\* and its declared MIME type, as declared, are members of the category's
\* lists; otherwise it is rejected as InvalidExtension or InvalidMimeType.
C19_TypeFilterExactMime ==
    \A r \in Reqs : \A j \in 1..Len(req[r].parts) :
        reachesFilter(r, j)
        => filteredBy(r, j, req[r].parts[j].mimetype \in configOf(r, j).mimeTypes)

\* C19 (amended): a part is accepted only if its extension and its declared
\* MIME type, both ignoring case, are members of the category's lists;
\* otherwise it is rejected as InvalidExtension, or as InvalidMimeType when the
\* extension is allowed, and nothing of it is written to disk.
C19_TypeFilter ==
    \A r \in Reqs : \A j \in 1..Len(req[r].parts) :
        reachesFilter(r, j)
        => filteredBy(r, j,
                      toLowerCase(req[r].parts[j].mimetype) \in configOf(r, j).mimeTypes)

\* one part rejected for its extension, another for its MIME type, with
\* nothing of either on disk
C19_Witness ==
    \E r1, r2 \in Reqs :
        /\ Len(req[r1].parts) = 1 /\ Len(req[r2].parts) = 1
        /\ reachesFilter(r1, 1) /\ reachesFilter(r2, 1)
        /\ ~extensionAllowed(r1, 1)
        /\ rejectedAs(r1, 1, "InvalidExtension") /\ neverWritten(r1, 1)
        /\ extensionAllowed(r2, 1)
        /\ rejectedAs(r2, 1, "InvalidMimeType") /\ neverWritten(r2, 1)

----------------------------------------------------------------------------
(* C20 *)

\* the first characters of a declared MIME type, as declared
hasPrefix(m, p) == Len(m) >= Len(p) /\ \A k \in 1..Len(p) : m[k] = p[k]

\* the directory the rule assigns to a declared MIME type
directoryOfMime(m) ==
    IF hasPrefix(m, <<105, 109, 97, 103, 101, 47>>) THEN "images"        \* image/
    ELSE IF hasPrefix(m, <<97, 117, 100, 105, 111, 47>>) THEN "audio"    \* audio/
    ELSE IF m \in {mime_pdf, mime_msword, mime_docx} THEN "resumes"
    ELSE "documents"

\* C20: the final directory of every stored file is the one the rule assigns
\* to its declared MIME type, so two stored files with the same declared MIME
\* type are in the same directory whatever category they were uploaded through.
C20_DirectoryByMimeType ==
    /\ \A id \in Uploaded :
          Stored(id) => fileOf(id).finalPath.dir = directoryOfMime(fileOf(id).mimetype)
    /\ \A a, b \in Uploaded :
          (Stored(a) /\ Stored(b) /\ fileOf(a).mimetype = fileOf(b).mimetype)
          => fileOf(a).finalPath.dir = fileOf(b).finalPath.dir

\* application/pdf stored through the document category and through the
\* resume category, both in resumes
C20_Witness ==
    \E a, b \in Uploaded :
        /\ Stored(a) /\ Stored(b)
        /\ fileOf(a).mimetype = mime_pdf /\ fileOf(b).mimetype = mime_pdf
        /\ categoryOf(req[a[1]].route, fileOf(a).fieldname) = "document"
        /\ categoryOf(req[b[1]].route, fileOf(b).fieldname) = "resume"
        /\ fileOf(a).finalPath.dir = "resumes"
        /\ fileOf(b).finalPath.dir = "resumes"

----------------------------------------------------------------------------
(* C21 *)

\* the file processUploadedFiles has verified: it is past validateFileContent
verified(id) ==
    \/ Stored(id)
    \/ /\ pc[id[1]] = "move"
       /\ current(id[1]) = id[2]

\* C21: a file whose declared MIME type has no registered signature passes
\* validateFileContent whatever its leading bytes are: the verification of
\* such a file answers true, and no request is rejected for the content of
\* such a file.
C21_UnregisteredPassesUnchecked ==
    \A r \in Reqs :
        /\ (pc[r] = "validate" /\ currentFile(r).mimetype \notin DOMAIN magicBytes)
           => validateFileContent(disk, currentFile(r))
        /\ (Done(r) /\ nextCalls[r] = <<InvalidContentError>>)
           => currentFile(r).mimetype \in DOMAIN magicBytes

\* two files declared audio/ogg with different leading bytes, both verified
\* and stored
C21_Witness ==
    \E a, b \in Uploaded :
        /\ verified(a) /\ verified(b)
        /\ Stored(a) /\ Stored(b)
        /\ fileOf(a).mimetype = fileOf(b).mimetype
        /\ fileOf(a).mimetype \notin DOMAIN magicBytes
        /\ contentOf(a).head # contentOf(b).head

----------------------------------------------------------------------------
(* C22: the scanner applied to files it can read. *)

\* the bytes the scanned files are made of, and their greatest length
ScanBytes == {77, 90, 37}                \* 'M', 'Z', '%'
MaxScanLen == 4

\* the leading bytes of the scanned files: every string of ScanBytes up to
\* MaxScanLen, "%PDFMZ", and the EICAR string at offsets 0, 100 and 1000
scanHeads ==
    UNION {[1..n -> ScanBytes] : n \in 0..MaxScanLen}
    \cup {PDF_MAGIC \o MZ,
          EICAR,
          [k \in 1..100 |-> 37] \o EICAR,
          [k \in 1..1000 |-> 37] \o EICAR}

\* a request at antivirusScan whose only file multer has stored and nothing
\* has moved: req.file.path can be opened
ScanInit ==
    \E head \in scanHeads :
        LET content == [head |-> head, size |-> Len(head)]
            part == Part("resume", name_cv_pdf, mime_pdf, content)
            file == multerFile(multerConfig("job"), 1, 1, part)
        IN  /\ disk = write(<<>>, file.path, content)
            /\ req = [r \in Reqs |-> IF r = 1
                                      THEN [route |-> "job", maxTotalSize |-> 0,
                                            parts |-> <<part>>]
                                      ELSE NoRequest]
            /\ pc = [r \in Reqs |-> IF r = 1 THEN "scan" ELSE "idle"]
            /\ idx = [r \in Reqs |-> 0]
            /\ files = [r \in Reqs |-> IF r = 1 THEN <<file>> ELSE <<>>]
            /\ fileMetadata = [r \in Reqs |-> <<>>]
            /\ nextCalls = [r \in Reqs |-> <<>>]
            /\ response = [r \in Reqs |-> NoResponse]
            /\ hashCount = [r \in Reqs |-> 0]
            /\ scanned = [r \in Reqs |-> {}]
            /\ probe = [r \in Reqs |-> NoProbe]
            /\ ioFault = [r \in Reqs |-> FALSE]
            /\ cleanupFault = [r \in Reqs |-> FALSE]
            /\ mtime = <<>>
            /\ sweep = NoSweep

ScanNext ==
    \E r \in Reqs :
        \/ antivirusScan(r)
        \/ Controller(r)

ScanSpec == ScanInit /\ [][ScanNext]_vars

\* antivirusScan has run on the files of a job application
scanRan(r) ==
    /\ req[r].route = "job"
    /\ \/ pc[r] = "controller"
       \/ Done(r) /\ response[r].status \in {201, 500}
       \/ Done(r) /\ response[r].error = "Malicious File Detected"

\* the request was ended by antivirusScan: rejected with MaliciousContent
flagged(r) == response[r] = [status |-> 400, error |-> "Malicious File Detected"]

\* the EICAR test string occurs in the first 1 KiB of the content
containsEICAR(content) == includes(Buffer(ScanBufferSize, content), EICAR)

\* the content begins with the DOS executable header: 'MZ' at offset 0
beginsWithMZ(content) ==
    Len(content.head) >= Len(MZ) /\ SubSeq(content.head, 1, Len(MZ)) = MZ

\* C22 (as stated): the scanner flags a file, and the request is rejected with
\* MaliciousContent, exactly when the first 1 KiB of the file contains the
\* EICAR string or the file begins with 'MZ'; a file with neither is clean.
C22_FlagsExactly ==
    \A r \in Reqs :
        (scanRan(r) /\ Len(files[r]) = 1)
        => (flagged(r) <=> (containsEICAR(contentOf(<<r, 1>>))
                            \/ beginsWithMZ(contentOf(<<r, 1>>))))

----------------------------------------------------------------------------
(* The temp sweep: cleanupOldFiles(24), mounted on the forms router. *)

\* the maxAgeHours the forms router passes to cleanupOldFiles
MaxAgeHours == 24

\* maxAge = maxAgeHours * 60 * 60 * 1000, in ms
maxAgeOf(maxAgeHours) == maxAgeHours * 60 * 60 * 1000

\* Date.now() of the sweep, in ms
SweepNow == 200000000

\* the test of the sweep with >= in place of >
expired_orEqual(now, mtimeMs, maxAge) == now - mtimeMs >= maxAge

\* the test of the sweep: now - stats.mtime.getTime() > maxAge
expired(now, mtimeMs, maxAge) == now - mtimeMs > maxAge

\* the number of files uploads/temp may hold when the sweep request arrives
MaxTempFiles == 3

\* uploads/temp/<name>: files multer wrote for upload requests
tempFile(k) == Path("temp", <<"tmp", 0, k>>, ext_pdf)

\* modification times: one ms over maxAge ago, exactly maxAge ago, just now
mtimes == {SweepNow - maxAgeOf(MaxAgeHours) - 1, SweepNow - maxAgeOf(MaxAgeHours), SweepNow}

\* files earlier requests have stored in the final directories
storedFiles ==
    write(write(<<>>, Path("resumes", sha256(c_pdf), ext_pdf), c_pdf),
          Path("documents", sha256(c_text), ext_txt), c_text)

\* fs.readdirSync(tempDir): the names in the directory, in name order
readdirSync(d) ==
    SelectSeq([k \in 1..MaxTempFiles |-> tempFile(k)], LAMBDA p : exists(d, p))

\* a request reaches router.use(cleanupOldFiles(24)); uploads/temp holds some
\* files of any age, the final directories hold stored files
SweepInit ==
    /\ \E present \in SUBSET (1..MaxTempFiles) : \E mt \in [present -> mtimes] :
        /\ disk = [p \in (DOMAIN storedFiles) \cup {tempFile(k) : k \in present} |->
                      IF p \in DOMAIN storedFiles THEN storedFiles[p] ELSE c_text]
        /\ mtime = [p \in {tempFile(k) : k \in present} |->
                       mt[CHOOSE k \in present : tempFile(k) = p]]
    /\ sweep = [NoSweep EXCEPT !.pc = "idle"]
    /\ req = [r \in Reqs |-> NoRequest]
    /\ pc = [r \in Reqs |-> "idle"]
    /\ idx = [r \in Reqs |-> 0]
    /\ files = [r \in Reqs |-> <<>>]
    /\ fileMetadata = [r \in Reqs |-> <<>>]
    /\ nextCalls = [r \in Reqs |-> <<>>]
    /\ response = [r \in Reqs |-> NoResponse]
    /\ hashCount = [r \in Reqs |-> 0]
    /\ scanned = [r \in Reqs |-> {}]
    /\ probe = [r \in Reqs |-> NoProbe]
    /\ ioFault = [r \in Reqs |-> FALSE]
    /\ cleanupFault = [r \in Reqs |-> FALSE]

\* what the steps of the sweep leave alone
requestVars ==
    <<req, pc, idx, files, fileMetadata, nextCalls, response, hashCount, scanned, probe,
      ioFault, cleanupFault>>

\* Math.random() > 0.1: next() without a sweep
SweepSkip ==
    /\ sweep.pc = "idle"
    /\ sweep' = [sweep EXCEPT !.pc = "done", !.nextCalls = @ + 1]
    /\ UNCHANGED <<disk, mtime, requestVars>>

\* Math.random() <= 0.1: the directory is listed
SweepList ==
    /\ sweep.pc = "idle"
    /\ sweep' = [sweep EXCEPT !.pc = "loop", !.files = readdirSync(disk), !.i = 1]
    /\ UNCHANGED <<disk, mtime, requestVars>>

\* the loop body up to the age test: fs.statSync(filePath) is outside the inner
\* try, so when the file is gone it throws to the outer catch, which logs and
\* calls next(): the loop ends there
SweepStat ==
    /\ sweep.pc = "loop"
    /\ sweep.i <= Len(sweep.files)
    /\ LET filePath == sweep.files[sweep.i]
       IN  IF ~exists(disk, filePath)
           THEN sweep' = [sweep EXCEPT !.pc = "done", !.failed = TRUE, !.nextCalls = @ + 1]
           ELSE IF expired(SweepNow, mtime[filePath], maxAgeOf(MaxAgeHours))
           THEN sweep' = [sweep EXCEPT !.pc = "unlink"]
           ELSE sweep' = [sweep EXCEPT !.i = @ + 1]
    /\ UNCHANGED <<disk, mtime, requestVars>>

\* try { fs.unlinkSync(filePath); cleanedCount++ } catch { }: the error of a
\* file that is gone is ignored
SweepUnlink ==
    /\ sweep.pc = "unlink"
    /\ LET filePath == sweep.files[sweep.i]
       IN  IF exists(disk, filePath)
           THEN /\ disk' = unlink(disk, filePath)
                /\ sweep' = [sweep EXCEPT !.pc = "loop", !.i = @ + 1, !.cleanedCount = @ + 1]
           ELSE /\ sweep' = [sweep EXCEPT !.pc = "loop", !.i = @ + 1]
                /\ UNCHANGED disk
    /\ UNCHANGED <<mtime, requestVars>>

\* the end of the loop: next()
SweepEnd ==
    /\ sweep.pc = "loop"
    /\ sweep.i > Len(sweep.files)
    /\ sweep' = [sweep EXCEPT !.pc = "done", !.nextCalls = @ + 1]
    /\ UNCHANGED <<disk, mtime, requestVars>>

\* The loop of the sweep is synchronous: no other callback of the same process
\* runs between readdirSync and the last unlinkSync.  The directory is shared
\* with every other process that serves uploads from it: the cleanupTempFiles
\* of a request handled there unlinks the temp file of that request, a file
\* written moments ago, and the sweep of that process unlinks an expired file.
OtherProcessCleanup ==
    /\ sweep.pc \in {"idle", "loop", "unlink"}
    /\ \E p \in DOMAIN mtime :
        /\ exists(disk, p)
        /\ \/ SweepNow - mtime[p] <= 0
           \/ expired(SweepNow, mtime[p], maxAgeOf(MaxAgeHours))
        /\ disk' = unlink(disk, p)
    /\ UNCHANGED <<mtime, sweep, requestVars>>

SweepNext ==
    \/ SweepSkip
    \/ SweepList
    \/ SweepStat
    \/ SweepUnlink
    \/ SweepEnd
    \/ OtherProcessCleanup

SweepSpec == SweepInit /\ [][SweepNext]_vars

----------------------------------------------------------------------------
(* C23 *)

\* the sweep listed the directory and went through the whole listing
sweptAll == sweep.pc = "done" /\ sweep.i > 0 /\ ~sweep.failed

\* the modification age of a temp file, in ms
ageOf(p) == SweepNow - mtime[p]

\* the paths of the listing, and the files of the final directories
listing == {sweep.files[k] : k \in 1..Len(sweep.files)}
finalFiles(d) == [p \in {q \in DOMAIN d : q.dir # "temp"} |-> d[p]]

\* C23: a sweep that went through its listing has deleted every temp file of
\* the listing older than maxAge; no step of the sweep deletes a temp file
\* whose age is at most maxAge, and no step of the sweep changes a file of a
\* final directory.
C23_SweepFrame ==
    /\ [](sweptAll => \A p \in listing :
                          ageOf(p) > maxAgeOf(MaxAgeHours) => ~exists(disk, p))
    /\ [][sweep' # sweep =>
            /\ \A p \in DOMAIN disk :
                  (p.dir = "temp" /\ ageOf(p) <= maxAgeOf(MaxAgeHours)) => exists(disk', p)
            /\ finalFiles(disk') = finalFiles(disk)]_vars

\* a sweep over a file one ms older than maxAge, now gone, and a file exactly
\* maxAge old, still there, with the stored files in place
C23_Witness ==
    /\ sweptAll
    /\ sweep.cleanedCount >= 1
    /\ \E p, q \in listing :
        /\ ageOf(p) = maxAgeOf(MaxAgeHours) + 1 /\ ~exists(disk, p)
        /\ ageOf(q) = maxAgeOf(MaxAgeHours) /\ exists(disk, q)
    /\ finalFiles(disk) = storedFiles

----------------------------------------------------------------------------
(* C30 *)

\* C30 (as stated): when the sweep has ended, every expired temp file of its
\* listing is gone, also when a file of the listing disappeared before it was
\* examined, and the middleware has called next() exactly once.
C30_SweepSurvivesDisappearance ==
    (sweep.pc = "done" /\ sweep.i > 0)
    => /\ \A p \in listing : ageOf(p) > maxAgeOf(MaxAgeHours) => ~exists(disk, p)
       /\ sweep.nextCalls = 1

\* the half of C30 the code keeps: next() is called once, never twice
C30_NextOnce ==
    /\ sweep.nextCalls <= 1
    /\ sweep.pc = "done" <=> sweep.nextCalls = 1

----------------------------------------------------------------------------
(* C24 *)

\* C24: when generateFileHash or the final rename fails, the request ends with
\* that error, and no other, passed once to next(); the temp files of the
\* request are unlinked, and when unlinkSync throws, which is only logged, the
\* same error is passed all the same.
C24_IOErrorSurfaced ==
    \A r \in Reqs :
        ioFault[r]
        => /\ Done(r)
           /\ nextCalls[r] = <<IOError>>
           /\ fileMetadata[r] = <<>>
           /\ ~cleanupFault[r] => tempPathsOf(r) = {}

\* a failed hash or rename whose cleanup failed too: the temp file is still
\* there and the error passed on is the I/O error
C24_Witness ==
    \E r \in Reqs :
        /\ ioFault[r] /\ cleanupFault[r]
        /\ tempPathsOf(r) # {}
        /\ nextCalls[r] = <<IOError>>

----------------------------------------------------------------------------
(* C25 *)

----------------------------------------------------------------------------
(* C26 *)

\* the request was rejected by a middleware of FileUploadMiddleware: an error
\* passed to next() by the upload middleware, or the response of antivirusScan
\* or checkDiskSpace
rejectedByUpload(r) ==
    \/ \E k \in 1..Len(nextCalls[r]) : nextCalls[r][k] # NoError
    \/ response[r].error \in {"Malicious File Detected", "Insufficient Storage"}

\* C26 (as stated): once a request has ended in a rejection, no file it moved
\* into a final directory is there, unless another request stored the same
\* file.
C26_RejectedLeavesNothingStored ==
    \A r \in Reqs :
        (Done(r) /\ rejectedByUpload(r))
        => \A k \in 1..Len(files[r]) :
              Stored(<<r, k>>)
              => \/ ~exists(disk, fileOf(<<r, k>>).finalPath)
                 \/ \E b \in Uploaded :
                       /\ b[1] # r /\ Stored(b)
                       /\ fileOf(b).finalPath = fileOf(<<r, k>>).finalPath

\* C26 (as stated), second half: when a file of a multi-file request fails
\* content verification, the files of the request processed before it are not
\* left in final storage.
C26_EarlierFilesRemoved ==
    \A r \in Reqs :
        (/\ Done(r) /\ nextCalls[r] = <<InvalidContentError>>
         /\ \A q \in Reqs \ {r} : pc[q] = "idle")
        => \A k \in 1..Len(files[r]) :
              Stored(<<r, k>>) => ~exists(disk, fileOf(<<r, k>>).finalPath)

----------------------------------------------------------------------------
(* C27 *)

\* path.basename of a path: the file name with its extension
basename(p) == <<p.stem, p.ext>>

\* C27 (as stated): when a request with an uploaded file has been answered with
\* success, the filename of each FileMetadata, and the filename of each file
\* object, is the basename of the file's final path and names a file that
\* exists in the final directory.
C27_FilenameIsFinalName ==
    \A r \in Reqs :
        (Done(r) /\ response[r].status \in {200, 201} /\ files[r] # <<>>)
        => \A k \in 1..Len(fileMetadata[r]) :
              /\ fileMetadata[r][k].filename = basename(fileMetadata[r][k].path)
              /\ files[r][k].filename = basename(files[r][k].finalPath)
              /\ exists(disk, Path(fileMetadata[r][k].path.dir,
                                   fileMetadata[r][k].filename[1],
                                   fileMetadata[r][k].filename[2]))

----------------------------------------------------------------------------
(* C28: the upload routes and the temp sweep over the same directories. *)

\* a request on an upload route arrives, or a request reaches the temp sweep
StoreInit == Init \/ SweepInit

StoreNext ==
    \/ sweep.pc = "off" /\ Next
    \/ SweepNext

StoreSpec == StoreInit /\ [][StoreNext]_vars

\* the files of the final directories: those named after a digest
storedPaths(d) == {p \in DOMAIN d : p.stem[1] = "sha256"}

\* C28: the file at the final path of every FileMetadata exists and has the
\* content the digest of the FileMetadata was computed from, and no step of an
\* ingest, a cleanup, a scan, a controller or a temp sweep deletes a stored
\* file or changes its content.
C28_StoredFilesPersist ==
    /\ [](\A r \in Reqs : \A k \in 1..Len(fileMetadata[r]) :
             /\ exists(disk, fileMetadata[r][k].path)
             /\ sha256(disk[fileMetadata[r][k].path]) = fileMetadata[r][k].hash)
    /\ [][\A p \in storedPaths(disk) : exists(disk', p) /\ disk'[p] = disk[p]]_vars

\* a file stored for one request, still in place with its content after a
\* second request uploaded the same file, found it stored, and was rejected
C28_Witness ==
    \E r1, r2 \in Reqs :
        /\ r1 # r2
        /\ Len(fileMetadata[r1]) = 1
        /\ Done(r1) /\ Done(r2) /\ Rejected(r2)
        /\ Len(files[r2]) = 1 /\ Stored(<<r2, 1>>)
        /\ fileOf(<<r2, 1>>).finalPath = fileMetadata[r1][1].path
        /\ exists(disk, fileMetadata[r1][1].path)
        /\ disk[fileMetadata[r1][1].path] = contentOf(<<r1, 1>>)

----------------------------------------------------------------------------
(* C29 *)

\* the upload middleware of the request has not finished
uploading(r) == pc[r] \in {"idle", "multer", "hash", "validate", "move"}

\* C29: the upload middleware calls next exactly once per request: not at all
\* while it is at work, and once, with or without an error, when it has ended
\* (success, multer error, aggregate-size violation, processing error).
C29_NextExactlyOnce ==
    \A r \in Reqs :
        /\ uploading(r) => nextCalls[r] = <<>>
        /\ ~uploading(r) => Len(nextCalls[r]) = 1

\* a request ended by the aggregate-size check and a request ended by a
\* processing error, each with one call of next
C29_Witness ==
    \E r1, r2 \in Reqs :
        /\ Done(r1) /\ Done(r2)
        /\ nextCalls[r1] = <<TotalSizeError>>
        /\ Len(nextCalls[r2]) = 1
        /\ reasonOf(nextCalls[r2][1]) \in {"InvalidContent", "IOError"}

====
